---- MODULE Spec2Model ----
(***************************************************************************)
(* Model of the decompiled C runtime comparison primitives                 *)
(*   src/decompiled_output/functions/memcmp.c                              *)
(*   src/decompiled_output/functions/strncmp.c                             *)
(* Each function is a small state machine: one action per basic block or   *)
(* loop iteration of the decompiled code, acting on a byte-addressed       *)
(* memory image.  Machine words are sequences of byte lanes, lane 1 being  *)
(* the byte at the lowest address (little-endian, least significant).      *)
(***************************************************************************)
EXTENDS Integers, Sequences, FiniteSets, TLC

VARIABLES
  fn,      \* which function the call under study runs
  pc,      \* position in the function's code
  mem,     \* memory image: the mapped buffers and their bytes
  arg,     \* the call's arguments: [a |-> address, b |-> address, n |-> count]
  mc,      \* memcmp's locals  (_Buf1, _Size, lVar3, uVar4, uVar2, bVar5)
  sc,      \* strncmp's locals (_Str1, _MaxCount, lVar3, uVar2, bVar1, bVar4)
  rd,      \* the loads performed so far, as offsets from the arguments,
           \* the latest load's width and addresses, the loop iterations run
  ret,     \* the returned int (meaningful when pc = "done")
  pw,      \* the word handed to the zero-byte probe and the probe's value
  prev,    \* the values returned by the earlier calls of this run
  fc       \* the flag checker's locals (user_input, pattern_index, ...)

vars == <<fn, pc, mem, arg, mc, sc, rd, ret, pw, prev, fc>>

----------------------------------------------------------------------------
(* Bounds of the model *)

\* Largest _Size handed to memcmp, and the size of each mapped buffer.
MaxSize == 42
\* Largest distance between the two differing bytes of a memcmp input.
MaxGap == 1
\* Largest _MaxCount handed to strncmp; each string buffer is mapped for
\* MaxStr + 7 bytes, the farthest a load of the function reaches.
MaxStr == 17
\* How far past A's terminator B's own differing byte may lie.
MaxPast == 2
\* Longest string handed to the flag checker.
MaxInput == 72

(* Program constants *)
WordBytes == 8
BlockBytes == 32
ByteRange == 256

\* strncmp's word-load guard: the mask 0xfff and the threshold 0xff9.
PageMask == 4095
PageLimit == 4089

\* Where the inputs live: the page-aligned bases of the two buffers (the low
\* address bits are added), and the low bits of a separate memcmp buffer B.
Place == [a |-> 4096, b |-> 16384, skew |-> 3]
ABase == Place.a
BBase == Place.b
BSkew == Place.skew

\* Byte values of the inputs: the common byte, a smaller one, a larger one
\* whose top bit is set (smaller as a signed char).
InputBytes == [fill |-> 97, lo |-> 96, hi |-> 225]
Fill == InputBytes.fill
LoByte == InputBytes.lo
HiByte == InputBytes.hi

Min(x, y) == IF x < y THEN x ELSE y
Max(x, y) == IF x > y THEN x ELSE y
B2I(p) == IF p THEN 1 ELSE 0

----------------------------------------------------------------------------
(* Fixed-width unsigned arithmetic on byte lanes *)

RECURSIVE AndBits(_, _, _)
AndBits(x, y, n) ==
  IF n = 0 THEN 0
  ELSE (x % 2) * (y % 2) + 2 * AndBits(x \div 2, y \div 2, n - 1)

And8(x, y) == AndBits(x, y, 8)
Or8(x, y) == x + y - And8(x, y)
Not8(x) == (ByteRange - 1) - x

AndW(x, y) == [i \in 1..Len(x) |-> And8(x[i], y[i])]
OrW(x, y) == [i \in 1..Len(x) |-> Or8(x[i], y[i])]
NotW(x) == [i \in 1..Len(x) |-> Not8(x[i])]

RECURSIVE CarryIn(_, _, _)
CarryIn(x, y, i) ==
  IF i = 1 THEN 0
  ELSE (x[i - 1] + y[i - 1] + CarryIn(x, y, i - 1)) \div ByteRange

\* x + y modulo 2^(8 * Len(x)): the carry out of the top lane is dropped.
AddW(x, y) == [i \in 1..Len(x) |-> (x[i] + y[i] + CarryIn(x, y, i)) % ByteRange]

\* The unsigned value v (0 <= v < 256) as a word of n lanes.
SmallW(v, n) == [i \in 1..n |-> IF i = 1 THEN v ELSE 0]
NegW(x) == AddW(NotW(x), SmallW(1, Len(x)))
SubW(x, y) == AddW(x, NegW(y))
IsZeroW(x) == \A i \in 1..Len(x) : x[i] = 0

\* Unsigned x < y: decided by the most significant lane that differs.
ULessW(x, y) ==
  \E i \in 1..Len(x) :
    /\ x[i] < y[i]
    /\ \A j \in (i + 1)..Len(x) : x[j] = y[j]

RECURSIVE ValW(_, _)
ValW(x, i) ==
  IF i > Len(x) THEN 0 ELSE x[i] + ByteRange * ValW(x, i + 1)

\* (int) of a 32-bit unsigned value: two's complement.
IntOfU32(x) ==
  IF x[4] >= 128 THEN (0 - ValW(NotW(x), 1)) - 1 ELSE ValW(x, 1)

U32(v) == SmallW(v, 4)

----------------------------------------------------------------------------
(* Memory and loads *)

\* The memory image is kept sparsely: the two mapped buffers (base address
\* and length), and for each the bytes that are not Fill (offset -> byte).
\* A buffer B with the base of A is the same memory as A.
InA(m, addr) == m.a <= addr /\ addr < m.a + m.len
InB(m, addr) == m.b <= addr /\ addr < m.b + m.len

\* The byte at an address.  Bytes outside the mapped image read as 0; no
\* reachable state of the functions loads one.
ByteAt(m, addr) ==
  IF InA(m, addr)
    THEN IF (addr - m.a) \in DOMAIN m.da THEN m.da[addr - m.a] ELSE Fill
  ELSE IF InB(m, addr)
    THEN IF (addr - m.b) \in DOMAIN m.db THEN m.db[addr - m.b] ELSE Fill
  ELSE 0
\* The 8-byte little-endian word at an address.
WordAt(m, addr) == [i \in 1..WordBytes |-> ByteAt(m, addr + i - 1)]

NoLoads == [cnt |-> 0, loA |-> 0, hiA |-> 0, loB |-> 0, hiB |-> 0,
            wid |-> 0, adA |-> 0, adB |-> 0, it |-> 0]

\* Record a load of `width` bytes at offset `off` of the first buffer.
NoteA(r, off, width) ==
  [r EXCEPT !.cnt = @ + 1, !.loA = Min(@, off), !.hiA = Max(@, off + width),
            !.wid = width, !.adA = arg.a + off]
\* Record a load of `width` bytes at offset `off` of the second buffer.
NoteB(r, off, width) ==
  [r EXCEPT !.cnt = @ + 1, !.loB = Min(@, off), !.hiB = Max(@, off + width),
            !.wid = width, !.adB = arg.b + off]
\* Record one more execution of a loop body.
Iter(r) == [r EXCEPT !.it = @ + 1]

\* size_t values are kept as their two's-complement representative: a value
\* that wrapped below zero is negative here and huge as an unsigned number.
SubSz(x, y) == x - y
ULessSz(x, y) == IF (x < 0) = (y < 0) THEN x < y ELSE y < 0

----------------------------------------------------------------------------
(* memcmp *)

McIdle == [Buf1 |-> 0, Size |-> 0, lVar3 |-> 0, uVar4 |-> 0,
           uVar2 |-> SmallW(0, WordBytes), bVar5 |-> FALSE]
ScIdle == [Str1 |-> 0, MaxCount |-> 0, lVar3 |-> 0,
           uVar2 |-> SmallW(0, WordBytes), bVar1 |-> 0, bVar4 |-> FALSE]
PwIdle == [w |-> SmallW(0, WordBytes), v |-> SmallW(0, WordBytes)]
FcIdle == [user_input |-> <<>>, pattern_index |-> 0, input_index |-> 0,
           low |-> 0, high |-> 0, mid |-> 0, stored |-> -1, out |-> ""]

\* Memory holding buffer A at a and buffer B at b, each of len bytes.
Image(a, b, len, diffA, diffB) ==
  [a |-> a, b |-> b, len |-> len, da |-> diffA, db |-> diffB]

NoDiff == [x \in {} |-> 0]
OneDiff(p, v) == [x \in {p} |-> v]
TwoDiff(p, v, q, u) == [x \in {p, q} |-> IF x = p THEN v ELSE u]

\* B's differences from A for a call of length n: none, one byte, or two
\* bytes at most MaxGap apart that differ in opposite directions.  The first
\* differing byte lies at an offset up to n: offset n is the first byte past
\* the compared length.
McDiffs(n) ==
  {NoDiff}
  \cup {OneDiff(p, v) : p \in 0..Min(n, MaxSize - 1), v \in {LoByte, HiByte}}
  \cup {TwoDiff(d[1], d[3], d[1] + d[2], IF d[3] = LoByte THEN HiByte ELSE LoByte) :
          d \in {e \in (0..Min(n, MaxSize - 1)) \X (1..MaxGap) \X {LoByte, HiByte} :
                   e[1] + e[2] < MaxSize}}

\* The state on entry to memcmp(a, b, n) with B's bytes differing as in d.
McCall(a, b, n, da, db) ==
  /\ fn = "memcmp"
  /\ pc = "entry"
  /\ arg = [a |-> a, b |-> b, n |-> n]
  /\ mem = Image(a, b, MaxSize, da, db)
  /\ mc = [McIdle EXCEPT !.Buf1 = a, !.Size = n]
  /\ sc = ScIdle
  /\ rd = NoLoads
  /\ ret = 0
  /\ pw = PwIdle
  /\ prev = <<>>
  /\ fc = FcIdle

\* The bytes of a buffer passed as both arguments: all Fill, or one other byte.
McAliasBytes(n) ==
  {NoDiff} \cup {OneDiff(p, LoByte) : p \in 0..Min(n, MaxSize - 1)}

\* The calls studied: every length up to MaxSize and every alignment of A;
\* B is either the same memory as A or a separate buffer that is not word
\* aligned.
InitMemcmp ==
  \E k \in 0..(WordBytes - 1), n \in 0..MaxSize :
    \/ \E d \in McAliasBytes(n) : McCall(ABase + k, ABase + k, n, d, NoDiff)
    \/ \E d \in McDiffs(n) : McCall(ABase + k, BBase + BSkew, n, NoDiff, d)

\* Mutant of McDelta: the distance between the buffers off by one byte.
McDeltaOff(a, b) == b - a + 1
\* line 36: lVar3 = (longlong)_Buf2 - (longlong)_Buf1.
McDelta(a, b) == b - a

\* Offsets of the current loads in A and in B, from the arguments.
McOffA(p) == p - arg.a
McOffB(p) == (p + mc.lVar3) - arg.b

\* lines 36-40: lVar3 = _Buf2 - _Buf1; if (7 < _Size) uVar4 = _Buf1 & 7.
McEntry ==
  /\ fn = "memcmp" /\ pc = "entry"
  /\ IF 7 < mc.Size
       THEN /\ mc' = [mc EXCEPT !.lVar3 = McDelta(arg.a, arg.b),
                                !.uVar4 = mc.Buf1 % WordBytes]
            /\ pc' = "align"
       ELSE /\ mc' = [mc EXCEPT !.lVar3 = McDelta(arg.a, arg.b)]
            /\ pc' = "tail"
  /\ UNCHANGED <<fn, mem, arg, sc, rd, ret, pw, prev, fc>>

\* lines 42-56: one iteration of the alignment loop.
McAlignStep ==
  /\ fn = "memcmp" /\ pc = "align" /\ mc.uVar4 # 0
  /\ LET x == ByteAt(mem, mc.Buf1)
         y == ByteAt(mem, mc.Buf1 + mc.lVar3)
     IN  /\ rd' = Iter(NoteB(NoteA(rd, McOffA(mc.Buf1), 1), McOffB(mc.Buf1), 1))
         /\ IF x # y
              THEN /\ mc' = [mc EXCEPT !.bVar5 = (x < y)]
                   /\ pc' = "LAB_14000d813"
              ELSE /\ mc' = [mc EXCEPT !.bVar5 = (x < y),
                                       !.Buf1 = @ + 1,
                                       !.Size = SubSz(@, 1),
                                       !.uVar4 = (mc.Buf1 + 1) % WordBytes]
                   /\ pc' = "align"
  /\ UNCHANGED <<fn, mem, arg, sc, ret, pw, prev, fc>>

\* Mutant of McWordCount: the word count rounded up.
McWordCountUp(size) == (size + 7) \div 8
\* Mutant of McTailExhausted: the count tested after its decrement.
McTailExhaustedPre(size) == SubSz(size, 1) = 0
\* line 60: the number of whole 4-word blocks, _Size >> 5.
McBlockCount(size) == size \div 32
\* lines 58 and 116: the number of whole words, _Size >> 3.
McWordCount(size) == size \div 8
\* line 168: the tail loop ends when no byte is left.
McTailExhausted(size) == size = 0

\* lines 58-62 and 116-118: _Buf1 is aligned; choose the phase.
McAlignDone ==
  /\ fn = "memcmp" /\ pc = "align" /\ mc.uVar4 = 0
  /\ IF McWordCount(mc.Size) # 0
       THEN IF McBlockCount(mc.Size) # 0
              THEN /\ mc' = [mc EXCEPT !.uVar4 = McBlockCount(mc.Size)]
                   /\ pc' = "block"
              ELSE /\ mc' = [mc EXCEPT !.uVar4 = McWordCount(mc.Size)]
                   /\ pc' = "word"
       ELSE /\ mc' = mc
            /\ pc' = "tail"
  /\ UNCHANGED <<fn, mem, arg, sc, rd, ret, pw, prev, fc>>

\* Mutant of LAB_14000d87c: the label does not fall into LAB_14000d880.
LAB_14000d87cNoFall(p) == p + 8
\* lines 76-80: LAB_14000d880 advances _Buf1 by one word.
LAB_14000d880(p) == p + 8
\* lines 88-92: LAB_14000d87c advances by one word and falls into LAB_14000d880.
LAB_14000d87c(p) == LAB_14000d880(p + 8)

\* Mutant of McBlockExit: the increment of line 100 before the jump to
\* LAB_14000d87c left out.
McBlockExitShort(p, k) ==
  CASE k = 0 -> p
    [] k = 1 -> p + 8
    [] OTHER -> p + 16
\* _Buf1 on arrival at LAB_14000d884 when word k of the block mismatches.
McBlockExit(p, k) ==
  CASE k = 0 -> p
    [] k = 1 -> LAB_14000d880(p)
    [] k = 2 -> LAB_14000d87c(p)
    [] k = 3 -> LAB_14000d87c(p + 8)

\* Record m word loads from each buffer, starting at _Buf1 = p.
NoteWords(r, p, m) ==
  [r EXCEPT !.cnt = @ + 2 * m,
            !.loA = Min(@, McOffA(p)), !.hiA = Max(@, McOffA(p) + WordBytes * m),
            !.loB = Min(@, McOffB(p)), !.hiB = Max(@, McOffB(p) + WordBytes * m),
            !.wid = WordBytes,
            !.adA = p + WordBytes * (m - 1),
            !.adB = p + mc.lVar3 + WordBytes * (m - 1)]

\* lines 64-112: one iteration of the 4-word block loop.
McBlock ==
  /\ fn = "memcmp" /\ pc = "block"
  /\ LET wa(k) == WordAt(mem, mc.Buf1 + WordBytes * k)
         wb(k) == WordAt(mem, mc.Buf1 + mc.lVar3 + WordBytes * k)
         mis == {k \in 0..3 : wa(k) # wb(k)}
     IN  IF mis # {}
           THEN LET k == CHOOSE j \in mis : \A i \in mis : j <= i
                IN  /\ mc' = [mc EXCEPT !.uVar2 = wa(k),
                                        !.Buf1 = McBlockExit(mc.Buf1, k)]
                    /\ rd' = Iter(NoteWords(rd, mc.Buf1, k + 1))
                    /\ pc' = "LAB_14000d884"
           ELSE /\ rd' = Iter(NoteWords(rd, mc.Buf1, 4))
                /\ IF mc.uVar4 - 1 # 0
                     THEN /\ mc' = [mc EXCEPT !.uVar2 = wa(3),
                                              !.Buf1 = @ + BlockBytes,
                                              !.uVar4 = @ - 1]
                          /\ pc' = "block"
                     ELSE \* lines 112-118
                          LET sz == mc.Size % BlockBytes
                          IN  /\ mc' = [mc EXCEPT !.uVar2 = wa(3),
                                                  !.Buf1 = @ + BlockBytes,
                                                  !.Size = sz,
                                                  !.uVar4 = McWordCount(sz)]
                              /\ pc' = IF McWordCount(sz) # 0 THEN "word" ELSE "tail"
  /\ UNCHANGED <<fn, mem, arg, sc, ret, pw, prev, fc>>

\* lines 120-158: one iteration of the single-word loop.
McWord ==
  /\ fn = "memcmp" /\ pc = "word"
  /\ LET wa == WordAt(mem, mc.Buf1)
         wb == WordAt(mem, mc.Buf1 + mc.lVar3)
     IN  /\ rd' = Iter(NoteWords(rd, mc.Buf1, 1))
         /\ IF wa # wb
              THEN /\ mc' = [mc EXCEPT !.uVar2 = wa]
                   /\ pc' = "LAB_14000d884"
              ELSE IF mc.uVar4 - 1 # 0
                     THEN /\ mc' = [mc EXCEPT !.uVar2 = wa,
                                              !.Buf1 = @ + WordBytes,
                                              !.uVar4 = @ - 1]
                          /\ pc' = "word"
                     ELSE /\ mc' = [mc EXCEPT !.uVar2 = wa,
                                              !.Buf1 = @ + WordBytes,
                                              !.uVar4 = 0,
                                              !.Size = @ % WordBytes]
                          /\ pc' = "tail"
  /\ UNCHANGED <<fn, mem, arg, sc, ret, pw, prev, fc>>

\* Mutant of ByteSwap: the words compared as loaded.
ByteSwapNone(w) == w
\* lines 132-146: the byte order of a word reversed, lane by lane:
\* w >> 0x38 is lane 8 moved to lane 1, ..., w << 0x38 is lane 1 moved to lane 8.
ByteSwap(w) == <<w[8], w[7], w[6], w[5], w[4], w[3], w[2], w[1]>>

\* Mutant of McResult: the second subtraction made twice.
McResultDoubleBorrow(u) ==
  IntOfU32(SubW(SubW(SubW(U32(1), U32(u)), U32(B2I(u # 0))), U32(B2I(u # 0))))
\* Mutant of McResult: the second subtraction left out.
McResultNoBorrow(u) == IntOfU32(SubW(U32(1), U32(u)))
\* lines 148 and 188: (1 - u) - (uint)(u != 0) as an int, u being 0 or 1.
McResult(u) == IntOfU32(SubW(SubW(U32(1), U32(u)), U32(B2I(u # 0))))

\* lines 132-148: the value returned for a's word x and b's word y:
\* uVar1 = bswap(x) < bswap(y), then (1 - uVar1) - (uVar1 != 0).
TieBreak(x, y) == McResult(B2I(ULessW(ByteSwap(x), ByteSwap(y))))

\* lines 128-148: LAB_14000d884, the sub-word tie-break.
McTieBreak ==
  /\ fn = "memcmp" /\ pc = "LAB_14000d884"
  /\ LET w4 == WordAt(mem, mc.lVar3 + mc.Buf1)
     IN  /\ rd' = NoteB(rd, McOffB(mc.Buf1), WordBytes)
         /\ ret' = TieBreak(mc.uVar2, w4)
  /\ pc' = "done"
  /\ UNCHANGED <<fn, mem, arg, mc, sc, pw, prev, fc>>

\* lines 166-172: the tail loop's exit when no byte is left.
McTailDone ==
  /\ fn = "memcmp" /\ pc = "tail" /\ McTailExhausted(mc.Size)
  /\ ret' = 0
  /\ pc' = "done"
  /\ UNCHANGED <<fn, mem, arg, mc, sc, rd, pw, prev, fc>>

\* Memory after a store of byte v at an address of the second buffer.
StoreB(m, addr, v) ==
  LET off == addr - m.b
      keep == (DOMAIN m.db) \ {off}
  IN  [m EXCEPT !.db = IF v = Fill
                         THEN [o \in keep |-> m.db[o]]
                         ELSE [o \in keep \cup {off} |->
                                 IF o = off THEN v ELSE m.db[o]]]

\* Mutant of McTailStep: the loop body of a byte copy, which stores the
\* first buffer's byte over the second buffer's when the two differ.
McTailStepStoring ==
  /\ fn = "memcmp" /\ pc = "tail" /\ ~McTailExhausted(mc.Size)
  /\ LET x == ByteAt(mem, mc.Buf1)
         y == ByteAt(mem, mc.Buf1 + mc.lVar3)
     IN  /\ rd' = Iter(NoteB(NoteA(rd, McOffA(mc.Buf1), 1), McOffB(mc.Buf1), 1))
         /\ mem' = IF x # y THEN StoreB(mem, mc.Buf1 + mc.lVar3, x) ELSE mem
         /\ IF x # y
              THEN /\ mc' = [mc EXCEPT !.bVar5 = (x < y)]
                   /\ pc' = "LAB_14000d813"
              ELSE /\ mc' = [mc EXCEPT !.bVar5 = (x < y),
                                       !.Buf1 = @ + 1,
                                       !.Size = SubSz(@, 1)]
                   /\ pc' = "tail"
  /\ UNCHANGED <<fn, arg, sc, ret, pw, prev, fc>>

\* lines 174-184: one iteration of the tail loop.
McTailStep ==
  /\ fn = "memcmp" /\ pc = "tail" /\ ~McTailExhausted(mc.Size)
  /\ LET x == ByteAt(mem, mc.Buf1)
         y == ByteAt(mem, mc.Buf1 + mc.lVar3)
     IN  /\ rd' = Iter(NoteB(NoteA(rd, McOffA(mc.Buf1), 1), McOffB(mc.Buf1), 1))
         /\ IF x # y
              THEN /\ mc' = [mc EXCEPT !.bVar5 = (x < y)]
                   /\ pc' = "LAB_14000d813"
              ELSE /\ mc' = [mc EXCEPT !.bVar5 = (x < y),
                                       !.Buf1 = @ + 1,
                                       !.Size = SubSz(@, 1)]
                   /\ pc' = "tail"
  /\ UNCHANGED <<fn, mem, arg, sc, ret, pw, prev, fc>>

\* lines 186-188: LAB_14000d813, the result of a byte mismatch.
McByteResult ==
  /\ fn = "memcmp" /\ pc = "LAB_14000d813"
  /\ ret' = McResult(B2I(mc.bVar5))
  /\ pc' = "done"
  /\ UNCHANGED <<fn, mem, arg, mc, sc, rd, pw, prev, fc>>

NextMemcmp ==
  \/ McEntry
  \/ McAlignStep
  \/ McAlignDone
  \/ McBlock
  \/ McWord
  \/ McTieBreak
  \/ McTailDone
  \/ McTailStep
  \/ McByteResult

SpecMemcmp == InitMemcmp /\ [][NextMemcmp]_vars

\* line 18: a further call of memcmp on the same memory with the two
\* arguments exchanged, made once the first call has returned.
McCallSwapped ==
  /\ fn = "memcmp" /\ pc = "done" /\ prev = <<>>
  /\ prev' = <<ret>>
  /\ arg' = [a |-> arg.b, b |-> arg.a, n |-> arg.n]
  /\ mc' = [McIdle EXCEPT !.Buf1 = arg.b, !.Size = arg.n]
  /\ rd' = NoLoads
  /\ ret' = 0
  /\ pc' = "entry"
  /\ UNCHANGED <<fn, mem, sc, pw, fc>>

SpecMemcmpSwap == InitMemcmp /\ [][NextMemcmp \/ McCallSwapped]_vars

----------------------------------------------------------------------------
(* strncmp *)

\* line 60: 0xfefefefefefefeff and 0x8080808080808080, lane by lane.
ProbeK == <<255, 254, 254, 254, 254, 254, 254, 254>>
ProbeH == <<128, 128, 128, 128, 128, 128, 128, 128>>

\* Mutant of WordTerminationProbe: the probe never reports a zero byte.
ProbeNever(w) == SmallW(0, Len(w))
\* Mutant of WordTerminationProbe: the mask lacks the top lane's bit.
ProbeTopLaneBlind(w) ==
  AndW(AndW(NotW(w), AddW(w, ProbeK)), <<128, 128, 128, 128, 128, 128, 128, 0>>)
\* Mutant of WordTerminationProbe: the factor ~w left out.
ProbeNoComplement(w) == AndW(AddW(w, ProbeK), ProbeH)
\* line 60: ~w & (w + 0xfefefefefefefeff) & 0x8080808080808080.
WordTerminationProbe(w) == AndW(AndW(NotW(w), AddW(w, ProbeK)), ProbeH)

\* Mutant of ScNoCount: a signed test that 0 does not pass.
ScNoCountSigned(n) == n < 0
\* Mutant of ScByteStop: the terminator test left out.
ScByteStopCountOnly(cnt, b1) == cnt = 0
\* Mutant of ScMismatch: the byte difference returned.
ScMismatchDiff(b1, b2) == b1 - b2
\* line 36: the loop is skipped when _MaxCount is 0.
ScNoCount(n) == n = 0
\* line 82: the byte loop ends when the count is used up or the byte of
\* _Str1 just compared was the terminator.
ScByteStop(cnt, b1) == cnt = 0 \/ b1 = 0
\* line 74: -(uint)(bVar1 < b) | 1 as an int.
ScMismatch(b1, b2) == IntOfU32(OrW(NegW(U32(B2I(b1 < b2))), U32(1)))
\* Mutant of ScPageSafe: the threshold one too high.
ScPageSafeOffByOne(d, p) == ((d + p) % (PageMask + 1)) < PageLimit + 1
\* line 44: ((int)lVar3 + (int)_Str1 & 0xfff) < 0xff9.
ScPageSafe(d, p) == ((d + p) % (PageMask + 1)) < PageLimit

\* The state on entry to strncmp(a, b, n) over the strings whose bytes
\* other than Fill are da and db.
ScCall(a, b, n, da, db) ==
  /\ fn = "strncmp"
  /\ pc = "entry"
  /\ arg = [a |-> a, b |-> b, n |-> n]
  /\ mem = Image(a, b, MaxStr + WordBytes - 1, da, db)
  /\ mc = McIdle
  /\ sc = [ScIdle EXCEPT !.Str1 = a, !.MaxCount = n]
  /\ rd = NoLoads
  /\ ret = 0
  /\ pw = PwIdle
  /\ prev = <<>>
  /\ fc = FcIdle

\* A's bytes other than Fill: a terminator at offset t, or none (t = -1).
ScTerm(t) == IF t < 0 THEN NoDiff ELSE OneDiff(t, 0)
\* B's bytes other than Fill: A's terminator, and byte v at offset p.
ScOther(t, p, v) == [x \in (DOMAIN ScTerm(t)) \cup {p} |-> IF x = p THEN v ELSE 0]

\* Page offsets of B: the start of a page, and 13 bytes before the end of one.
ScBOffsets == {0, 4083}

\* The calls studied: every count up to MaxStr and every alignment of A; A
\* with a terminator at an offset up to the count, or with none; B equal to
\* A, or differing in one byte (smaller, larger, or a terminator of its own)
\* at an offset up to the count and at most MaxPast past A's terminator.
InitStrncmp ==
  \E k \in 0..(WordBytes - 1), o \in ScBOffsets, n \in 0..MaxStr :
    \E t \in (-1)..n :
      \/ ScCall(ABase + k, BBase + o, n, ScTerm(t), ScTerm(t))
      \/ \E p \in 0..(IF t < 0 THEN n ELSE Min(n, t + MaxPast)), v \in {LoByte, HiByte, 0} :
           /\ ~(p = t /\ v = 0)
           /\ ScCall(ABase + k, BBase + o, n, ScTerm(t), ScOther(t, p, v))

\* line 42: if (uVar2 == 0) the word loop is entered, else one byte is compared.
ScTop(u) == IF IsZeroW(u) THEN "word" ELSE "byte"

ScOffA(p) == p - arg.a
ScOffB(p) == (p + sc.lVar3) - arg.b

\* lines 34-42: lVar3 = _Str2 - _Str1; if (_MaxCount != 0) uVar2 = _Str1 & 7;
\* lines 88-90: otherwise return 0.
ScEntry ==
  /\ fn = "strncmp" /\ pc = "entry"
  /\ IF ScNoCount(sc.MaxCount)
       THEN /\ sc' = [sc EXCEPT !.lVar3 = arg.b - arg.a]
            /\ ret' = 0
            /\ pc' = "done"
       ELSE /\ sc' = [sc EXCEPT !.lVar3 = arg.b - arg.a,
                                !.uVar2 = SmallW(sc.Str1 % WordBytes, WordBytes)]
            /\ ret' = ret
            /\ pc' = ScTop(SmallW(sc.Str1 % WordBytes, WordBytes))
  /\ UNCHANGED <<fn, mem, arg, mc, rd, pw, prev, fc>>

\* lines 44-66: one evaluation of the word loop's condition and, when it
\* holds, one iteration of its body.
ScWord ==
  /\ fn = "strncmp" /\ pc = "word"
  /\ IF ScPageSafe(sc.lVar3, sc.Str1)
       THEN LET wa == WordAt(mem, sc.Str1)
                wb == WordAt(mem, sc.lVar3 + sc.Str1)
                cnt == SubSz(sc.MaxCount, WordBytes)
                b4 == ULessSz(sc.MaxCount, WordBytes)
                ld == NoteB(NoteA(rd, ScOffA(sc.Str1), WordBytes),
                            ScOffB(sc.Str1), WordBytes)
            IN  /\ rd' = IF wa = wb THEN Iter(ld) ELSE ld
                /\ IF wa = wb
                     THEN /\ sc' = [sc EXCEPT !.uVar2 = wa,
                                              !.Str1 = @ + WordBytes,
                                              !.bVar4 = b4,
                                              !.MaxCount = cnt]
                          /\ IF b4 \/ cnt = 0
                               THEN pc' = "done" /\ ret' = 0
                               ELSE IF ~IsZeroW(WordTerminationProbe(wa))
                                      THEN pc' = "done" /\ ret' = 0
                                      ELSE pc' = "word" /\ ret' = ret
                     ELSE /\ sc' = [sc EXCEPT !.uVar2 = wa]
                          /\ pc' = "byte"
                          /\ ret' = ret
       ELSE /\ pc' = "byte"
            /\ UNCHANGED <<sc, rd, ret>>
  /\ UNCHANGED <<fn, mem, arg, mc, pw, prev, fc>>

\* lines 70-84, then line 42: compare one byte and return or loop.
\* Line 70's (byte)*(ulonglong *)_Str1 keeps the lowest lane only, the byte
\* at _Str1; it is recorded as a load of that one byte.
ScByte ==
  /\ fn = "strncmp" /\ pc = "byte"
  /\ LET b1 == ByteAt(mem, sc.Str1)
         b2 == ByteAt(mem, sc.lVar3 + sc.Str1)
         cnt == SubSz(sc.MaxCount, 1)
     IN  /\ rd' = Iter(NoteB(NoteA(rd, ScOffA(sc.Str1), 1), ScOffB(sc.Str1), 1))
         /\ IF b1 # b2
              THEN /\ sc' = [sc EXCEPT !.bVar1 = b1]
                   /\ ret' = ScMismatch(b1, b2)
                   /\ pc' = "done"
              ELSE IF ScByteStop(cnt, b1)
                     THEN /\ sc' = [sc EXCEPT !.bVar1 = b1,
                                              !.Str1 = @ + 1,
                                              !.MaxCount = cnt]
                          /\ ret' = 0
                          /\ pc' = "done"
                     ELSE /\ sc' = [sc EXCEPT !.bVar1 = b1,
                                              !.Str1 = @ + 1,
                                              !.MaxCount = cnt,
                                              !.uVar2 = SmallW((sc.Str1 + 1) % WordBytes,
                                                               WordBytes)]
                          /\ ret' = ret
                          /\ pc' = ScTop(SmallW((sc.Str1 + 1) % WordBytes, WordBytes))
  /\ UNCHANGED <<fn, mem, arg, mc, pw, prev, fc>>

NextStrncmp ==
  \/ ScEntry
  \/ ScWord
  \/ ScByte

SpecStrncmp == InitStrncmp /\ [][NextStrncmp]_vars

----------------------------------------------------------------------------
(* memcmp's sub-word tie-break on its own *)

\* Lane values of the words compared: one below and one above 0x80.
TieLanes == {LoByte, HiByte}

\* Every pair of unequal words over TieLanes: pw.w is the word of the first
\* buffer, pw.v the word of the second.
InitTie ==
  \E x \in [1..WordBytes -> TieLanes], y \in [1..WordBytes -> TieLanes] :
    /\ x # y
    /\ fn = "tiebreak"
    /\ pc = "LAB_14000d884"
    /\ pw = [w |-> x, v |-> y]
    /\ mem = Image(ABase, BBase, 0, NoDiff, NoDiff)
    /\ arg = [a |-> ABase, b |-> BBase, n |-> 0]
    /\ mc = McIdle
    /\ sc = ScIdle
    /\ rd = NoLoads
    /\ ret = 0
    /\ prev = <<>>
    /\ fc = FcIdle

\* lines 128-148: the tie-break applied to the two words.
TieApply ==
  /\ fn = "tiebreak" /\ pc = "LAB_14000d884"
  /\ ret' = TieBreak(pw.w, pw.v)
  /\ pc' = "done"
  /\ UNCHANGED <<fn, mem, arg, mc, sc, rd, pw, prev, fc>>

SpecTie == InitTie /\ [][TieApply]_vars

----------------------------------------------------------------------------
(* Both primitives: a call of either function *)

InitCalls == InitMemcmp \/ InitStrncmp

NextCalls ==
  \/ NextMemcmp
  \/ NextStrncmp

SpecCalls == InitCalls /\ [][NextCalls]_vars

----------------------------------------------------------------------------
(* The zero-byte probe on its own *)

\* Lane values of the words probed.
ProbeLanes == {0, 1, 128, 255}

InitProbe ==
  \E w \in [1..WordBytes -> ProbeLanes] :
    /\ fn = "probe"
    /\ pc = "entry"
    /\ pw = [w |-> w, v |-> SmallW(0, WordBytes)]
    /\ mem = Image(ABase, BBase, 0, NoDiff, NoDiff)
    /\ arg = [a |-> ABase, b |-> BBase, n |-> 0]
    /\ mc = McIdle
    /\ sc = ScIdle
    /\ rd = NoLoads
    /\ ret = 0
    /\ prev = <<>>
    /\ fc = FcIdle

\* line 60: the probe applied to a word.
ProbeApply ==
  /\ fn = "probe" /\ pc = "entry"
  /\ pw' = [pw EXCEPT !.v = WordTerminationProbe(pw.w)]
  /\ pc' = "done"
  /\ UNCHANGED <<fn, mem, arg, mc, sc, rd, ret, prev, fc>>

SpecProbe == InitProbe /\ [][ProbeApply]_vars

----------------------------------------------------------------------------
(* The flag checker: main of src/Test_files/challoutput_typed.c *)

\* line 12: char generated_pattern[520].
PatternCap == 520
\* line 22: inputs of 0x47 characters or more are refused.
InputLimit == 71
\* line 30: high = 0xff.
SearchTop == 255
\* line 56: the expected pattern length 0x1c0.
TargetLen == 448

\* The characters of the inputs, as the (signed) char values that
\* (int)user_input[i] yields: '0', 'a', 0x7f, and the byte 0xe1.
FcChars == {48, 97, 127, -31}

\* C's integer division, which truncates toward zero.
CDiv(x, y) == IF x >= 0 THEN x \div y ELSE 0 - ((0 - x) \div y)

\* lines 18-19: the state once scanf has stored a string: one character
\* repeated, of any length up to MaxInput.
InitMain ==
  \E c \in FcChars, len \in 0..MaxInput :
    /\ fn = "main"
    /\ pc = "entry"
    /\ fc = [FcIdle EXCEPT !.user_input = [i \in 1..len |-> c]]
    /\ mem = Image(ABase, BBase, 0, NoDiff, NoDiff)
    /\ arg = [a |-> ABase, b |-> BBase, n |-> 0]
    /\ mc = McIdle
    /\ sc = ScIdle
    /\ rd = NoLoads
    /\ ret = 0
    /\ pw = PwIdle
    /\ prev = <<>>

\* lines 21-25: the length test.
FcLengthTest ==
  /\ fn = "main" /\ pc = "entry"
  /\ IF Len(fc.user_input) >= InputLimit
       THEN /\ fc' = [fc EXCEPT !.out = "Nope"]
            /\ pc' = "done"
       ELSE /\ fc' = fc
            /\ pc' = "outer"
  /\ UNCHANGED <<fn, mem, arg, mc, sc, rd, ret, pw, prev>>

\* lines 28-30: the outer loop's test and the reset of the search range.
FcOuter ==
  /\ fn = "main" /\ pc = "outer"
  /\ IF fc.input_index < Len(fc.user_input)
       THEN /\ fc' = [fc EXCEPT !.low = 0, !.high = SearchTop]
            /\ pc' = "search"
       ELSE /\ fc' = fc
            /\ pc' = "compare"
  /\ UNCHANGED <<fn, mem, arg, mc, sc, rd, ret, pw, prev>>

\* lines 34-52: one iteration of the binary search: a store to
\* generated_pattern[pattern_index], then the break or the narrowed range.
\* A store at an index outside the array is undefined behaviour; the model
\* records the index stored to and follows the run no further.
FcSearch ==
  /\ fn = "main" /\ pc = "search"
  /\ LET c == fc.user_input[fc.input_index + 1]
         mid == CDiv(fc.low + fc.high, 2)
         st == [fc EXCEPT !.mid = mid, !.stored = fc.pattern_index,
                          !.pattern_index = @ + 1]
     IN  IF fc.pattern_index >= PatternCap
           THEN /\ fc' = [fc EXCEPT !.mid = mid, !.stored = fc.pattern_index]
                /\ pc' = "undefined"
           ELSE IF mid = c
             THEN /\ fc' = [st EXCEPT !.input_index = @ + 1]
                  /\ pc' = "outer"
           ELSE IF mid < c
             THEN /\ fc' = [st EXCEPT !.low = mid + 1]
                  /\ pc' = "search"
           ELSE /\ fc' = [st EXCEPT !.high = mid - 1]
                /\ pc' = "search"
  /\ UNCHANGED <<fn, mem, arg, mc, sc, rd, ret, pw, prev>>

\* lines 56-68: the comparison with target, whose contents are not part of
\* the source: a pattern of the expected length may or may not match.
FcCompare ==
  /\ fn = "main" /\ pc = "compare"
  /\ \E o \in {"Correct!", "Nope"} :
       /\ (o = "Correct!") => fc.pattern_index = TargetLen
       /\ fc' = [fc EXCEPT !.out = o]
  /\ pc' = "done"
  /\ UNCHANGED <<fn, mem, arg, mc, sc, rd, ret, pw, prev>>

NextMain ==
  \/ FcLengthTest
  \/ FcOuter
  \/ FcSearch
  \/ FcCompare

SpecMain == InitMain /\ [][NextMain]_vars

----------------------------------------------------------------------------
(* Reference: the byte-by-byte comparison of the first n bytes at a and b *)

DiffIdx(m, a, b, n) == {i \in 0..(n - 1) : ByteAt(m, a + i) # ByteAt(m, b + i)}
FirstDiff(m, a, b, n) == CHOOSE i \in DiffIdx(m, a, b, n) : \A j \in DiffIdx(m, a, b, n) : i <= j
Sign(x) == IF x < 0 THEN -1 ELSE IF x > 0 THEN 1 ELSE 0
RefSign(m, a, b, n) ==
  IF DiffIdx(m, a, b, n) = {} THEN 0
  ELSE LET i == FirstDiff(m, a, b, n)
       IN  IF ByteAt(m, a + i) < ByteAt(m, b + i) THEN -1 ELSE 1

McDone == fn = "memcmp" /\ pc = "done"

----------------------------------------------------------------------------
(* Claims about memcmp *)

\* C1: when memcmp(A, B, L) returns, its value is negative if at the first
\* index where A and B differ the unsigned byte of A is the smaller one,
\* positive if it is the larger one, and 0 if no index below L differs.
C1_MemcmpSign == McDone => Sign(ret) = RefSign(mem, arg.a, arg.b, arg.n)

\* C1 witness: a returned call whose first argument is not word aligned,
\* whose two differing bytes lie past the first 4-word block, and whose
\* result is negative.
C1_Witness ==
  /\ McDone /\ ret < 0
  /\ arg.a % WordBytes # 0
  /\ Cardinality(DiffIdx(mem, arg.a, arg.b, arg.n)) = 2
  /\ FirstDiff(mem, arg.a, arg.b, arg.n) >= BlockBytes

\* C4: every load of memcmp, from the first and from the second buffer,
\* lies within offsets [0, length) of that buffer.
C4_MemcmpLoadsInBounds ==
  fn = "memcmp" =>
    /\ 0 <= rd.loA /\ rd.hiA <= arg.n
    /\ 0 <= rd.loB /\ rd.hiB <= arg.n

\* C4 witness: an equal comparison of 42 or more bytes from an unaligned
\* address, which ran the alignment, block and word phases and loaded
\* every byte up to the length.
C4_Witness ==
  /\ McDone /\ ret = 0
  /\ arg.a % WordBytes # 0 /\ arg.n >= 42
  /\ rd.hiA = arg.n /\ rd.hiB = arg.n

\* C6: memcmp(a, b, 0) performs no load and returns 0.
C6_MemcmpZeroLength ==
  (fn = "memcmp" /\ arg.n = 0) =>
    /\ rd.cnt = 0
    /\ pc = "done" => ret = 0

\* C6 witness: a returned call of length 0 on two buffers whose first
\* bytes differ.
C6_Witness ==
  /\ McDone /\ arg.n = 0 /\ arg.a # arg.b
  /\ ByteAt(mem, arg.a) # ByteAt(mem, arg.b)

\* C8: memcmp(A, B, L) and memcmp(B, A, L) are sign-inverses: when the call
\* with exchanged arguments returns, its sign is the opposite of the sign
\* the first call returned.
C8_MemcmpAntisymmetric ==
  (McDone /\ Len(prev) = 1) => Sign(ret) = 0 - Sign(prev[1])

\* C8 witness: both calls returned, the first one positive, with a first
\* argument that was not word aligned and a difference found in a word.
C8_Witness ==
  /\ McDone /\ Len(prev) = 1 /\ prev[1] > 0 /\ ret < 0
  /\ arg.b % WordBytes # 0
  /\ rd.hiA >= WordBytes

\* C9: memcmp(A, A, L), both arguments the same address, returns 0.
C9_MemcmpReflexiveAliased == (McDone /\ arg.a = arg.b) => ret = 0

\* C9 witness: a returned aliased call of at least 33 bytes from an
\* unaligned address over a buffer that is not uniform.
C9_Witness ==
  /\ McDone /\ arg.a = arg.b /\ arg.n > BlockBytes
  /\ arg.a % WordBytes # 0
  /\ mem.da # NoDiff

\* The n bytes found at an address, as a sequence that no longer carries
\* the address.
Bytes(m, addr, n) == [i \in 1..n |-> ByteAt(m, addr + i - 1)]

\* The naive comparison of two byte sequences of one length, from index i on.
RECURSIVE NaiveScan(_, _, _)
NaiveScan(x, y, i) ==
  IF i > Len(x) THEN 0
  ELSE IF x[i] # y[i] THEN (IF x[i] < y[i] THEN -1 ELSE 1)
  ELSE NaiveScan(x, y, i + 1)

\* C11: for given buffer contents and length, memcmp returns the value of
\* the naive byte scan of the contents, whatever the addresses of the two
\* buffers modulo 8 and so whatever the split of the length between the
\* alignment, block, word and tail phases.
C11_MemcmpEqualsNaiveScan ==
  McDone =>
    ret = NaiveScan(Bytes(mem, arg.a, arg.n), Bytes(mem, arg.b, arg.n), 1)

\* C11 witness: a returned call of 33 bytes whose first buffer starts 3 past
\* a word boundary and whose second starts 5 past one, the only difference
\* being the last byte, met in the tail phase after the alignment and word
\* phases.
C11_Witness ==
  /\ McDone /\ Len(prev) = 1 /\ arg.n = BlockBytes + 1
  /\ arg.a % WordBytes = 3 /\ arg.b % WordBytes = 5
  /\ DiffIdx(mem, arg.a, arg.b, arg.n) = {BlockBytes}
  /\ ret = 1

----------------------------------------------------------------------------
(* Reference: the bounded string comparison, one byte at a time *)

\* The offset at which the scan of a and b stops: the count n, the first
\* mismatch, or the first zero byte of a (equal to b's), whichever is first.
RECURSIVE StopAt(_, _, _, _, _)
StopAt(m, a, b, n, i) ==
  IF i >= n \/ ByteAt(m, a + i) # ByteAt(m, b + i) \/ ByteAt(m, a + i) = 0
    THEN i
    ELSE StopAt(m, a, b, n, i + 1)

\* The scan stopped at a mismatching pair of bytes.
StopIsMismatch(m, a, b, n) ==
  LET i == StopAt(m, a, b, n, 0)
  IN  i < n /\ ByteAt(m, a + i) # ByteAt(m, b + i)

RefStrSign(m, a, b, n) ==
  LET i == StopAt(m, a, b, n, 0)
  IN  IF ~StopIsMismatch(m, a, b, n) THEN 0
      ELSE IF ByteAt(m, a + i) < ByteAt(m, b + i) THEN -1 ELSE 1

\* The offsets strncmp may read: below the count and up to the first
\* terminator of a.
RECURSIVE FirstZero(_, _, _, _)
FirstZero(m, a, i, lim) ==
  IF i >= lim \/ ByteAt(m, a + i) = 0 THEN i ELSE FirstZero(m, a, i + 1, lim)
ReadWindow(m, a, n) == Min(n, FirstZero(m, a, 0, m.len) + 1)

ScDone == fn = "strncmp" /\ pc = "done"

----------------------------------------------------------------------------
(* Claims about strncmp *)

\* C2: when strncmp(a, b, maxCount) returns, the sign of its value is the
\* sign given by the byte-by-byte scan that stops at maxCount bytes, at the
\* first mismatch, or at a zero byte of a that b shares: 0 when the common
\* terminator or the count is reached first, negative or positive by the
\* unsigned bytes at the mismatch.
C2_StrncmpSign == ScDone => Sign(ret) = RefStrSign(mem, arg.a, arg.b, arg.n)

\* C2 witness: a returned call on a word-aligned a that is terminated inside
\* its first word, where b continues past a's terminator and the count
\* reaches beyond it: the result is negative.
C2_Witness ==
  /\ ScDone /\ ret < 0
  /\ arg.a % WordBytes = 0
  /\ StopAt(mem, arg.a, arg.b, arg.n, 0) = 2
  /\ ByteAt(mem, arg.a + 2) = 0
  /\ arg.n = 5

C5_StrncmpLoadsInWindow ==
  fn = "strncmp" =>
    /\ rd.hiA <= ReadWindow(mem, arg.a, arg.n)
    /\ rd.hiB <= ReadWindow(mem, arg.a, arg.n)

\* C7: strncmp(a, b, 0) performs no load and returns 0.
C7_StrncmpZeroCount ==
  (fn = "strncmp" /\ arg.n = 0) =>
    /\ rd.cnt = 0
    /\ pc = "done" => ret = 0

\* C7 witness: a returned call with count 0 on strings whose first bytes
\* differ, a not word aligned.
C7_Witness ==
  /\ ScDone /\ arg.n = 0
  /\ arg.a % WordBytes # 0
  /\ ByteAt(mem, arg.a) # ByteAt(mem, arg.b)

\* Some byte lane of a word is the terminator.
HasZero(w) == \E i \in 1..Len(w) : w[i] = 0

\* What C16 says of a step of the word loop for which the loop goes on: the
\* words loaded were equal and free of zero bytes, more than 8 bytes of
\* maxCount remained, and afterwards every byte skipped so far is nonzero
\* and equal in a and b and maxCount is down by the number of bytes skipped.
BulkSkipSound ==
  LET wa == WordAt(mem, sc.Str1)
      wb == WordAt(mem, sc.lVar3 + sc.Str1)
  IN  pc' = "word" =>
        /\ ScPageSafe(sc.lVar3, sc.Str1)
        /\ wa = wb /\ ~HasZero(wa)
        /\ sc.MaxCount > WordBytes
        /\ sc'.Str1 = sc.Str1 + WordBytes
        /\ sc'.MaxCount = arg.n - (sc'.Str1 - arg.a)
        /\ \A i \in 0..(sc'.Str1 - arg.a - 1) :
              /\ ByteAt(mem, arg.a + i) = ByteAt(mem, arg.b + i)
              /\ ByteAt(mem, arg.a + i) # 0

\* The word loop has loaded equal words that hold a terminator, with more
\* than 8 bytes of maxCount remaining, so that the probe is consulted.
TerminatorInMatchedWord ==
  /\ ScPageSafe(sc.lVar3, sc.Str1)
  /\ WordAt(mem, sc.Str1) = WordAt(mem, sc.lVar3 + sc.Str1)
  /\ HasZero(WordAt(mem, sc.Str1))
  /\ sc.MaxCount > WordBytes

\* C16 as stated: the word loop goes on only after a sound bulk skip, and
\* when a matched word holds a terminator the comparison falls through to
\* byte-level scanning.
C16_FallsThroughToBytes ==
  [][ (fn = "strncmp" /\ pc = "word") =>
        /\ BulkSkipSound
        /\ TerminatorInMatchedWord => pc' = "byte"
    ]_vars

\* C16, amended: the word loop goes on only after a sound bulk skip, and
\* when a matched word holds a terminator the function returns 0 in that
\* very step, with no byte-level scanning.
C16_ReturnsAtTerminator ==
  [][ (fn = "strncmp" /\ pc = "word") =>
        /\ BulkSkipSound
        /\ TerminatorInMatchedWord => (pc' = "done" /\ ret' = 0)
    ]_vars

\* C16 witness: a call that skipped one word in bulk and then returned 0
\* from the word loop on a matched word holding the terminator, with
\* maxCount not exhausted.
C16_Witness ==
  /\ ScDone /\ ret = 0
  /\ rd.it = 2 /\ rd.wid = WordBytes
  /\ sc.MaxCount > 0 /\ ~sc.bVar4
  /\ HasZero(sc.uVar2)

\* The 4096-byte page an address lies in.
PageOf(addr) == addr \div (PageMask + 1)

RECURSIVE ByteOnly(_, _, _, _)
ByteOnly(x, y, cnt, i) ==
  IF x[i] # y[i] THEN ScMismatch(x[i], y[i])
  ELSE IF ScByteStop(cnt - 1, x[i]) THEN 0
  ELSE ByteOnly(x, y, cnt - 1, i + 1)

StrncmpByteOnly(x, y, n) == IF ScNoCount(n) THEN 0 ELSE ByteOnly(x, y, n, 1)

\* C18: for given string contents and maxCount, strncmp returns the value
\* that its byte path alone returns on the contents, whatever the address
\* of a modulo 8 and the page offset of b, also when the strings differ
\* only after a terminator or only at or beyond maxCount.
C18_StrncmpEqualsByteOnly ==
  ScDone =>
    LET x == Bytes(mem, arg.a, arg.n)
        y == Bytes(mem, arg.b, arg.n)
    IN  ret = StrncmpByteOnly(x, y, arg.n)

\* C18 witness: a call that returned 0 on strings differing inside the
\* count but after the terminator, the differing byte having been loaded as
\* part of a word, with a not word aligned and b near the end of a page.
C18_Witness ==
  /\ ScDone /\ ret = 0
  /\ arg.a % WordBytes # 0 /\ arg.b % (PageMask + 1) # 0
  /\ DiffIdx(mem, arg.a, arg.b, arg.n) # {}
  /\ rd.hiA > FirstDiff(mem, arg.a, arg.b, arg.n)

\* C10: the probe's value is nonzero exactly when some byte lane of the
\* word is zero.
C10_ProbeExact ==
  (fn = "probe" /\ pc = "done") =>
    (~IsZeroW(pw.v) <=> \E i \in 1..WordBytes : pw.w[i] = 0)

\* C10 witness: the probe applied to a word whose only zero lane is the
\* most significant one, below it a lane of 0x80 and a lane of 0x01.
C10_Witness ==
  /\ fn = "probe" /\ pc = "done"
  /\ pw.w[WordBytes] = 0
  /\ \A i \in 1..(WordBytes - 1) : pw.w[i] # 0
  /\ pw.w[7] = 128 /\ pw.w[1] = 1
  /\ ~IsZeroW(pw.v)

\* The lowest-addressed lane at which two unequal words differ.
LowestDiff(x, y) ==
  CHOOSE i \in 1..WordBytes :
    x[i] # y[i] /\ \A j \in 1..(i - 1) : x[j] = y[j]

----------------------------------------------------------------------------
(* Claims about memcmp's exits, block loop and tie-break *)

\* C19: memcmp returns exactly -1, 0 or +1 on every path: a mismatch in the
\* alignment loop or in the tail (LAB_14000d813), the word tie-break
\* (LAB_14000d884), and equality; no byte or word difference is returned.
C19_MemcmpTriState == McDone => ret \in {-1, 0, 1}

\* C19 witness: a call that returned -1 from a byte mismatch met in the
\* alignment loop, before _Buf1 reached a word boundary.
C19_Witness ==
  /\ McDone /\ ret = -1
  /\ rd.wid = 1 /\ mc.uVar4 # 0
  /\ ByteAt(mem, arg.b + rd.hiA - 1) - ByteAt(mem, arg.a + rd.hiA - 1) > 1

\* C15: in the block phase, when the first mismatching word of the block is
\* word k, the step arrives at LAB_14000d884 with _Buf1 advanced by exactly
\* 8k, the saved word being a's word at block offset 8k and the distance to
\* b unchanged, so the tie-break reloads b's word at block offset 8k and the
\* result is decided by that pair of words, not by a later one; when all
\* four words match, _Buf1 advances by 32 and the block counter goes down
\* by one (the loop ends when it reaches zero).
C15_BlockExit ==
  [][ /\ (fn = "memcmp" /\ pc = "block") =>
            LET p == mc.Buf1
                d == mc.lVar3
                eq(k) == WordAt(mem, p + 8 * k) = WordAt(mem, p + d + 8 * k)
            IN  /\ \A k \in 0..3 :
                     (~eq(k) /\ \A j \in 0..(k - 1) : eq(j)) =>
                       /\ pc' = "LAB_14000d884"
                       /\ mc'.Buf1 = p + 8 * k
                       /\ mc'.uVar2 = WordAt(mem, p + 8 * k)
                       /\ mc'.lVar3 = d
                /\ (\A k \in 0..3 : eq(k)) =>
                       /\ mc'.Buf1 = p + 32
                       /\ IF pc' = "block" THEN mc'.uVar4 = mc.uVar4 - 1
                                           ELSE mc.uVar4 = 1
      /\ (fn = "memcmp" /\ pc = "LAB_14000d884") =>
            LET x == WordAt(mem, mc.Buf1)
                y == WordAt(mem, mc.Buf1 + mc.lVar3)
            IN  /\ x # y /\ mc.uVar2 = x
                /\ ret' = IF x[LowestDiff(x, y)] < y[LowestDiff(x, y)] THEN -1 ELSE 1
    ]_vars

\* The first word-aligned address at or after a.
AlignedUp(a) == a + ((WordBytes - (a % WordBytes)) % WordBytes)

\* C15 witness: a call that returned a negative value from the tie-break
\* reached out of the block loop on word 1 of a block, word 2 of the block
\* differing as well, in the opposite direction.
C15_Witness ==
  /\ McDone /\ ret < 0 /\ rd.wid = WordBytes
  /\ McBlockCount(mc.Size) # 0
  /\ (mc.Buf1 - AlignedUp(arg.a)) % BlockBytes = 8
  /\ ByteAt(mem, mc.Buf1 + 8) > ByteAt(mem, mc.Buf1 + mc.lVar3 + 8)

\* C14: for unequal words x of the first buffer and y of the second, loaded
\* little-endian, byteswap(x) < byteswap(y) as unsigned numbers exactly when
\* x's byte is the smaller one at the lowest-addressed differing byte, and
\* the tie-break returns a negative value in that case and a positive value
\* otherwise.
C14_TieBreakLowestByte ==
  (fn = "tiebreak" /\ pc = "done") =>
    LET i == LowestDiff(pw.w, pw.v)
    IN  /\ ULessW(ByteSwap(pw.w), ByteSwap(pw.v)) <=> pw.w[i] < pw.v[i]
        /\ pw.w[i] < pw.v[i] => ret < 0
        /\ pw.w[i] > pw.v[i] => ret > 0

\* C14 witness: the tie-break has returned a negative value for two words
\* of which the first has the smaller byte at the lowest address and the
\* larger byte at every other address.
C14_Witness ==
  /\ fn = "tiebreak" /\ pc = "done" /\ ret < 0
  /\ pw.w[1] < pw.v[1]
  /\ \A i \in 2..WordBytes : pw.w[i] > pw.v[i]

----------------------------------------------------------------------------
(* Claims about both primitives *)

\* The value a returned call must have, read off the call's inputs alone:
\* the contents of the two buffers and the count.
ValueOfInputs ==
  IF fn = "memcmp"
    THEN NaiveScan(Bytes(mem, arg.a, arg.n), Bytes(mem, arg.b, arg.n), 1)
    ELSE RefStrSign(mem, arg.a, arg.b, arg.n)

\* C12: memcmp and strncmp only read.  No step of either function changes a
\* byte of memory, an argument, or any state other than the running
\* function's own locals, its load record and its result; and the result of
\* a call is fixed by the buffer contents, the addresses and the count, so
\* two calls on the same inputs return the same value.
C12_ReadOnly ==
  [][ /\ mem' = mem /\ arg' = arg /\ fn' = fn
      /\ pw' = pw /\ prev' = prev /\ fc' = fc
      /\ (fn = "memcmp" => sc' = sc)
      /\ (fn = "strncmp" => mc' = mc)
      /\ (pc' = "done" => ret' = ValueOfInputs)
    ]_vars

\* C12 witness: a strncmp call that has returned nonzero after loading
\* words and bytes from two distinct buffers, the second of which differs
\* from the first.
C12_Witness ==
  /\ ScDone /\ ret # 0
  /\ arg.a # arg.b /\ mem.db # NoDiff
  /\ rd.hiA >= WordBytes /\ rd.wid = 1

\* How far a position in the code is from the return, counted in steps that
\* are not loop iterations.
PcWeight(p) ==
  CASE p = "entry" -> 5
    [] p = "align" -> 4
    [] p \in {"block", "word", "tail"} -> 3
    [] p = "byte" -> 2
    [] p \in {"LAB_14000d884", "LAB_14000d813"} -> 1
    [] OTHER -> 0

\* A measure of the work left: the iterations still allowed by the length
\* (or maxCount), then the position.
Rank == 6 * (arg.n - rd.it) + PcWeight(pc)

\* The remaining-count variable of the loop a call is in.
LoopCount ==
  IF fn = "strncmp" THEN sc.MaxCount
  ELSE IF pc \in {"block", "word"} THEN mc.uVar4
  ELSE mc.Size

\* C13: every call of memcmp and of strncmp returns after at most length
\* (maxCount) loop iterations.  Every step lowers Rank, which is never
\* negative, so at most arg.n iterations run and no call runs forever; an
\* iteration starts with a remaining count of at least 1, an iteration
\* after which the loop goes on has strictly lowered that count and left it
\* at least 0, and a count that wrapped below zero is only ever found in a
\* call that has returned.
C13_Terminates ==
  [][ /\ Rank' < Rank /\ Rank' >= 0
      /\ rd'.it = rd.it + 1 =>
            /\ LoopCount >= 1
            /\ (IF fn = "strncmp" THEN pc' \in {"word", "byte"} ELSE pc' = pc) =>
                  LoopCount' < LoopCount /\ LoopCount' >= 0
      /\ pc' # "done" =>
            IF fn = "strncmp" THEN sc'.MaxCount >= 0
            ELSE mc'.Size >= 0 /\ mc'.uVar4 >= 0
    ]_vars

\* C13 witness: a strncmp call with maxCount 17 on equal strings without a
\* terminator that returned after 3 word iterations, the last of which
\* took 8 from a remaining count of 1.
C13_Witness ==
  /\ ScDone /\ arg.n = 17 /\ rd.it = 3
  /\ sc.MaxCount < 0 /\ sc.bVar4

----------------------------------------------------------------------------
(* Claims about the flag checker *)

\* C20: in main, for every accepted input (fewer than 0x47 characters), the
\* index of every store to generated_pattern is below 520, the capacity of
\* the array, so no '<', '>' or '=' is stored outside it.
C20_PatternIndexInBounds ==
  fn = "main" => fc.stored < PatternCap

====
